---- MODULE Spec2Model ----
(***************************************************************************)
(* Model of the sense-exporter core (exporter.go): the scrape handler      *)
(* Exporter.ServeHTTP, the per-monitor Collector.Collect and the stream    *)
(* aggregator callbackContainer.callback.                                  *)
(*                                                                         *)
(* exporter.go holds several revisions of the package.  ServeHTTP and the  *)
(* callback are the same in all of them; Collect is modelled from the      *)
(* revision with the Client interface and the seenWatts backfill           *)
(* (exporter.go:391-462).                                                  *)
(*                                                                         *)
(* The Client (GetDevices, Stream, GetMonitors) and the wall clock are the *)
(* environment: their results are nondeterministic choices.  Device ids    *)
(* identify devices, so a catalog and a message never list one id twice.   *)
(* float32 readings are whole numbers; float64(x) keeps their value.       *)
(*                                                                         *)
(* Spec serves one request after the other; LiveSpec adds the fairness of  *)
(* the clock, the registry and a client that honours its context; DynSpec  *)
(* lets the clients' monitor sets change between requests; ConcSpec        *)
(* interleaves the steps of two requests in flight; CancelSpec lets the    *)
(* context of either request be cancelled; RerunSpec calls Collect a       *)
(* second time on the same collector.                                      *)
(***************************************************************************)
EXTENDS Integers, Sequences, FiniteSets, TLC

\* ------------------------------------------------------------------ bounds
MaxCalls == 3      \* callback invocations per Stream call
MaxTime == 2       \* clock ticks per request
ConcCalls == 2     \* callback invocations per Stream call of two
                   \* requests in flight at once

\* ------------------------------------------------------------ input sets
\* e.timeout: negative, zero (no deadline) and positive.
Timeouts == {-1, 0, 1}

\* e.clients: each client is the sequence of monitor ids GetMonitors returns.
ClientConfigs ==
    { <<>>,
      << <<>> >>,
      << <<7>> >>,
      << <<>>, <<12>> >>,
      << <<7, 12>> >>,
      << <<7>>, <<12>> >>,
      << <<7>>, <<7>> >> }

\* sense.Device as returned by GetDevices.
Device(id) ==
    IF id = "D1"
    THEN [ID |-> "D1", Name |-> "Light", Type |-> "Light",
          Make |-> "Philips", Model |-> "Hue"]
    ELSE [ID |-> id, Name |-> "Fridge", Type |-> "Refrigerator",
          Make |-> "Samsung", Model |-> "RF28"]

\* The zero value of sense.Device, which a map lookup of a missing key yields.
ZeroDevice == [ID |-> "", Name |-> "", Type |-> "", Make |-> "", Model |-> ""]

Catalogs ==
    { <<>>, <<Device("D1")>>, <<Device("D2")>>,
      <<Device("D1"), Device("D2")>>, <<Device("D2"), Device("D1")>> }

\* realtime.RealtimeUpdate messages.
RealtimeUpdate(devs, volts, w) ==
    [kind |-> "RealtimeUpdate", W |-> w, Hz |-> 60, Voltage |-> volts,
     Devices |-> devs, States |-> <<>>]

RealtimeMsgs ==
    { RealtimeUpdate(<<>>, <<120, 119>>, 0),
      RealtimeUpdate(<<[ID |-> "D1", W |-> 25]>>, <<120, 119>>, 100),
      RealtimeUpdate(<<[ID |-> "D2", W |-> 0]>>, <<121>>, 30),
      RealtimeUpdate(<<[ID |-> "D1", W |-> 50], [ID |-> "D2", W |-> 30]>>,
                     <<>>, 175) }

\* realtime.DeviceStates messages.
DeviceStates(states) ==
    [kind |-> "DeviceStates", W |-> 0, Hz |-> 0, Voltage |-> <<>>,
     Devices |-> <<>>, States |-> states]

DeviceStatesMsgs ==
    { DeviceStates(<<>>),
      DeviceStates(<<[DeviceID |-> "D1", Mode |-> "active", State |-> "online"],
                     [DeviceID |-> "D2", Mode |-> "inactive", State |-> "offline"]>>),
      DeviceStates(<<[DeviceID |-> "D2", Mode |-> "active", State |-> "offline"]>>),
      DeviceStates(<<[DeviceID |-> "D1", Mode |-> "idle", State |-> "online"]>>) }

\* Any other realtime.Message variant (e.g. the Hello message).
OtherMsgs ==
    { [kind |-> "Hello", W |-> 0, Hz |-> 0, Voltage |-> <<>>,
       Devices |-> <<>>, States |-> <<>>] }

Messages == RealtimeMsgs \cup DeviceStatesMsgs \cup OtherMsgs

NoMsg == [kind |-> "none", W |-> 0, Hz |-> 0, Voltage |-> <<>>,
          Devices |-> <<>>, States |-> <<>>]

\* --------------------------------------------------------------- helpers
Digits == <<"0", "1", "2", "3", "4", "5", "6", "7", "8", "9">>

RECURSIVE Utoa(_)
Utoa(n) == IF n < 10 THEN Digits[n + 1]
           ELSE Utoa(n \div 10) \o Digits[(n % 10) + 1]

\* strconv.Itoa
Itoa(n) == IF n < 0 THEN "-" \o Utoa(-n) ELSE Utoa(n)

\* ----------------------------------------------------------- descriptors
upDesc == [fqName |-> "sense_monitor_up", labels |-> <<>>]
scrapeTimeDesc == [fqName |-> "sense_scrape_time_seconds", labels |-> <<>>]
deviceWattsDesc == [fqName |-> "sense_device_watts",
                    labels |-> <<"device_id", "name", "type", "make", "model">>]
voltsDesc == [fqName |-> "sense_monitor_volts", labels |-> <<"channel">>]
wattsDesc == [fqName |-> "sense_monitor_watts", labels |-> <<>>]
hzDesc == [fqName |-> "sense_monitor_hz", labels |-> <<>>]
activeDesc == [fqName |-> "sense_device_active",
               labels |-> <<"device_id", "name", "type", "make", "model">>]
onlineDesc == [fqName |-> "sense_device_online",
               labels |-> <<"device_id", "name", "type", "make", "model">>]

\* Fault: Describe that leaves out onlineDesc.
Describe_NoOnline == <<upDesc, scrapeTimeDesc, deviceWattsDesc, voltsDesc,
                       wattsDesc, hzDesc, activeDesc>>

\* Collector.Describe: the descriptors sent, in order.
Describe == <<upDesc, scrapeTimeDesc, deviceWattsDesc, voltsDesc,
              wattsDesc, hzDesc, activeDesc, onlineDesc>>

\* prometheus.MustNewConstMetric(desc, GaugeValue, value, labelValues...)
MustNewConstMetric(desc, value, labelValues) ==
    [name |-> desc.fqName, labels |-> labelValues, value |-> value]

\* devInfo := make(map[string]sense.Device); devInfo[d.ID] = d
DevInfo(devices) ==
    [id \in {devices[i].ID : i \in 1..Len(devices)} |->
        devices[CHOOSE i \in 1..Len(devices) :
                   /\ devices[i].ID = id
                   /\ \A j \in (i + 1)..Len(devices) : devices[j].ID # id]]

\* Fault: Lookup that names a device missing from the map after its id.
Lookup_NameFromId(devInfo, id) ==
    IF id \in DOMAIN devInfo THEN devInfo[id]
    ELSE [ZeroDevice EXCEPT !.Name = id]

\* e.devInfo[id]: the zero Device when the id is not in the map.
Lookup(devInfo, id) == IF id \in DOMAIN devInfo THEN devInfo[id] ELSE ZeroDevice

DeviceLabels(devInfo, id) ==
    <<id, Lookup(devInfo, id).Name, Lookup(devInfo, id).Type,
      Lookup(devInfo, id).Make, Lookup(devInfo, id).Model>>

\* ------------------------------------------------------ stream aggregator
\* Fault: RealtimeSamples that skips the devices drawing no power.
RealtimeSamples_SkipZeroWatts(devInfo, msg) ==
    [i \in 1..Len(SelectSeq(msg.Devices, LAMBDA d : d.W # 0)) |->
        MustNewConstMetric(deviceWattsDesc,
            SelectSeq(msg.Devices, LAMBDA d : d.W # 0)[i].W,
            DeviceLabels(devInfo,
                SelectSeq(msg.Devices, LAMBDA d : d.W # 0)[i].ID))]
    \o [i \in 1..Len(msg.Voltage) |->
        MustNewConstMetric(voltsDesc, msg.Voltage[i], <<Itoa(i - 1)>>)]
    \o << MustNewConstMetric(wattsDesc, msg.W, <<>>),
          MustNewConstMetric(hzDesc, msg.Hz, <<>>) >>

\* Fault: RealtimeSamples that numbers the voltage channels from one.
RealtimeSamples_OneBasedChannel(devInfo, msg) ==
    [i \in 1..Len(msg.Devices) |->
        MustNewConstMetric(deviceWattsDesc, msg.Devices[i].W,
                           DeviceLabels(devInfo, msg.Devices[i].ID))]
    \o [i \in 1..Len(msg.Voltage) |->
        MustNewConstMetric(voltsDesc, msg.Voltage[i], <<Itoa(i)>>)]
    \o << MustNewConstMetric(wattsDesc, msg.W, <<>>),
          MustNewConstMetric(hzDesc, msg.Hz, <<>>) >>

\* case *realtime.RealtimeUpdate: the samples sent to e.ch, in order.
RealtimeSamples(devInfo, msg) ==
    [i \in 1..Len(msg.Devices) |->
        MustNewConstMetric(deviceWattsDesc, msg.Devices[i].W,
                           DeviceLabels(devInfo, msg.Devices[i].ID))]
    \o [i \in 1..Len(msg.Voltage) |->
        MustNewConstMetric(voltsDesc, msg.Voltage[i], <<Itoa(i - 1)>>)]
    \o << MustNewConstMetric(wattsDesc, msg.W, <<>>),
          MustNewConstMetric(hzDesc, msg.Hz, <<>>) >>

\* var active, online float64; set to 1.0 for "active" and for "online".
\* Fault: Active that takes every mode but "inactive" for active.
Active_NotInactive(d) == IF d.Mode # "inactive" THEN 1 ELSE 0

Active(d) == IF d.Mode = "active" THEN 1 ELSE 0
Online(d) == IF d.State = "online" THEN 1 ELSE 0

RECURSIVE StatesSamplesFrom(_, _, _)
StatesSamplesFrom(devInfo, states, i) ==
    IF i > Len(states) THEN <<>>
    ELSE << MustNewConstMetric(activeDesc, Active(states[i]),
                               DeviceLabels(devInfo, states[i].DeviceID)),
            MustNewConstMetric(onlineDesc, Online(states[i]),
                               DeviceLabels(devInfo, states[i].DeviceID)) >>
         \o StatesSamplesFrom(devInfo, states, i + 1)

\* Fault: StatesSamples that sends the active value under deviceWattsDesc.
StatesSamples_WattsDesc(devInfo, msg) ==
    [k \in 1..Len(StatesSamplesFrom(devInfo, msg.States, 1)) |->
        IF StatesSamplesFrom(devInfo, msg.States, 1)[k].name = activeDesc.fqName
        THEN [StatesSamplesFrom(devInfo, msg.States, 1)[k]
                 EXCEPT !.name = deviceWattsDesc.fqName]
        ELSE StatesSamplesFrom(devInfo, msg.States, 1)[k]]

\* case *realtime.DeviceStates: the samples sent to e.ch, in order.
StatesSamples(devInfo, msg) == StatesSamplesFrom(devInfo, msg.States, 1)

\* Fault: StopOrNil with || in place of &&.
StopOrNil_Either(gotRealtime, gotStates) ==
    IF gotRealtime \/ gotStates THEN "Stop" ELSE "nil"

\* The check that ends callback.
StopOrNil(gotRealtime, gotStates) ==
    IF gotRealtime /\ gotStates THEN "Stop" ELSE "nil"

\* Fault: callback that handles a Device State Batch only after a Realtime
\* Update was seen.
callback_StatesNeedRealtime(e, msg) ==
    CASE msg.kind = "RealtimeUpdate" ->
           IF e.gotRealtime
           THEN [e |-> e, out |-> <<>>, ret |-> "nil"]
           ELSE [e |-> [e EXCEPT !.gotRealtime = TRUE,
                                 !.seenWatts = e.seenWatts \cup
                                    {msg.Devices[i].ID : i \in 1..Len(msg.Devices)}],
                 out |-> RealtimeSamples(e.devInfo, msg),
                 ret |-> StopOrNil(TRUE, e.gotStates)]
      [] msg.kind = "DeviceStates" ->
           IF e.gotStates \/ ~e.gotRealtime
           THEN [e |-> [e EXCEPT !.gotStates = TRUE], out |-> <<>>,
                 ret |-> "nil"]
           ELSE [e |-> [e EXCEPT !.gotStates = TRUE],
                 out |-> StatesSamples(e.devInfo, msg),
                 ret |-> StopOrNil(e.gotRealtime, TRUE)]
      [] OTHER ->
           [e |-> e, out |-> <<>>, ret |-> StopOrNil(e.gotRealtime, e.gotStates)]

\* Fault: callback whose switch handles every other variant as a Realtime
\* Update without readings.
callback_OtherIsRealtime(e, msg) ==
    CASE msg.kind = "DeviceStates" ->
           IF e.gotStates
           THEN [e |-> e, out |-> <<>>, ret |-> "nil"]
           ELSE [e |-> [e EXCEPT !.gotStates = TRUE],
                 out |-> StatesSamples(e.devInfo, msg),
                 ret |-> StopOrNil(e.gotRealtime, TRUE)]
      [] OTHER ->
           IF e.gotRealtime
           THEN [e |-> e, out |-> <<>>, ret |-> "nil"]
           ELSE [e |-> [e EXCEPT !.gotRealtime = TRUE,
                                 !.seenWatts = e.seenWatts \cup
                                    {msg.Devices[i].ID : i \in 1..Len(msg.Devices)}],
                 out |-> RealtimeSamples(e.devInfo, msg),
                 ret |-> StopOrNil(TRUE, e.gotStates)]

\* Fault: callback that sets gotRealtime in the loop over the devices of
\* the update, so not at all for an update without devices.
callback_FlagInsideLoop(e, msg) ==
    CASE msg.kind = "RealtimeUpdate" ->
           IF e.gotRealtime
           THEN [e |-> e, out |-> <<>>, ret |-> "nil"]
           ELSE [e |-> [e EXCEPT !.gotRealtime = Len(msg.Devices) > 0,
                                 !.seenWatts = e.seenWatts \cup
                                    {msg.Devices[i].ID : i \in 1..Len(msg.Devices)}],
                 out |-> RealtimeSamples(e.devInfo, msg),
                 ret |-> IF Len(msg.Devices) > 0 /\ e.gotStates
                         THEN "Stop" ELSE "nil"]
      [] msg.kind = "DeviceStates" ->
           IF e.gotStates
           THEN [e |-> e, out |-> <<>>, ret |-> "nil"]
           ELSE [e |-> [e EXCEPT !.gotStates = TRUE],
                 out |-> StatesSamples(e.devInfo, msg),
                 ret |-> IF e.gotRealtime THEN "Stop" ELSE "nil"]
      [] OTHER ->
           [e |-> e, out |-> <<>>,
            ret |-> IF e.gotRealtime /\ e.gotStates THEN "Stop" ELSE "nil"]

\* Fault: callback that does not mark the reported devices in seenWatts.
callback_SeenNotMarked(e, msg) ==
    CASE msg.kind = "RealtimeUpdate" ->
           IF e.gotRealtime
           THEN [e |-> e, out |-> <<>>, ret |-> "nil"]
           ELSE [e |-> [e EXCEPT !.gotRealtime = TRUE],
                 out |-> RealtimeSamples(e.devInfo, msg),
                 ret |-> IF e.gotStates THEN "Stop" ELSE "nil"]
      [] msg.kind = "DeviceStates" ->
           IF e.gotStates
           THEN [e |-> e, out |-> <<>>, ret |-> "nil"]
           ELSE [e |-> [e EXCEPT !.gotStates = TRUE],
                 out |-> StatesSamples(e.devInfo, msg),
                 ret |-> IF e.gotRealtime THEN "Stop" ELSE "nil"]
      [] OTHER ->
           [e |-> e, out |-> <<>>,
            ret |-> IF e.gotRealtime /\ e.gotStates THEN "Stop" ELSE "nil"]

\* Fault: callback without the early returns on gotRealtime and gotStates.
callback_NoSeenCheck(e, msg) ==
    CASE msg.kind = "RealtimeUpdate" ->
           [e |-> [e EXCEPT !.gotRealtime = TRUE,
                            !.seenWatts = e.seenWatts \cup
                               {msg.Devices[i].ID : i \in 1..Len(msg.Devices)}],
            out |-> RealtimeSamples(e.devInfo, msg),
            ret |-> IF e.gotStates THEN "Stop" ELSE "nil"]
      [] msg.kind = "DeviceStates" ->
           [e |-> [e EXCEPT !.gotStates = TRUE],
            out |-> StatesSamples(e.devInfo, msg),
            ret |-> IF e.gotRealtime THEN "Stop" ELSE "nil"]
      [] OTHER ->
           [e |-> e, out |-> <<>>,
            ret |-> IF e.gotRealtime /\ e.gotStates THEN "Stop" ELSE "nil"]

\* callbackContainer.callback on the container e = [gotRealtime, gotStates,
\* seenWatts, devInfo]: the container after the call, the samples sent to
\* e.ch and the returned error ("nil" or "Stop").
callback(e, msg) ==
    CASE msg.kind = "RealtimeUpdate" ->
           IF e.gotRealtime
           THEN [e |-> e, out |-> <<>>, ret |-> "nil"]
           ELSE [e |-> [e EXCEPT !.gotRealtime = TRUE,
                                 !.seenWatts = e.seenWatts \cup
                                    {msg.Devices[i].ID : i \in 1..Len(msg.Devices)}],
                 out |-> RealtimeSamples(e.devInfo, msg),
                 ret |-> StopOrNil(TRUE, e.gotStates)]
      [] msg.kind = "DeviceStates" ->
           IF e.gotStates
           THEN [e |-> e, out |-> <<>>, ret |-> "nil"]
           ELSE [e |-> [e EXCEPT !.gotStates = TRUE],
                 out |-> StatesSamples(e.devInfo, msg),
                 ret |-> StopOrNil(e.gotRealtime, TRUE)]
      [] OTHER ->
           [e |-> e, out |-> <<>>, ret |-> StopOrNil(e.gotRealtime, e.gotStates)]

\* cb := &callbackContainer{ch: ch, devInfo: devInfo, seenWatts: make(...)}
NewCallbackContainer(devices) ==
    [gotRealtime |-> FALSE, gotStates |-> FALSE, seenWatts |-> {},
     devInfo |-> DevInfo(devices)]

\* -------------------------------------------------------------- Collect
\* The loop after Stream: a zero device_watts for every catalog device that
\* is not in seenWatts.
RECURSIVE BackfillFrom(_, _, _)
BackfillFrom(devices, seenWatts, i) ==
    IF i > Len(devices) THEN <<>>
    ELSE (IF devices[i].ID \in seenWatts THEN <<>>
          ELSE << MustNewConstMetric(deviceWattsDesc, 0,
                     DeviceLabels(DevInfo(devices), devices[i].ID)) >>)
         \o BackfillFrom(devices, seenWatts, i + 1)

\* Fault: Backfill without the seenWatts test.
Backfill_All(devices, seenWatts) == BackfillFrom(devices, {}, 1)

Backfill(devices, seenWatts) == BackfillFrom(devices, seenWatts, 1)

\* Fault: Deferred that sends scrape_time_seconds ahead of up.
Deferred_ScrapeTimeFirst(collectOk, elapsed) ==
    << MustNewConstMetric(scrapeTimeDesc, elapsed, <<>>),
       MustNewConstMetric(upDesc, collectOk, <<>>) >>

\* Fault: Deferred without the scrape_time_seconds sample.
Deferred_OnlyUp(collectOk, elapsed) ==
    << MustNewConstMetric(upDesc, collectOk, <<>>) >>

\* The deferred function of Collect: up, then scrape_time_seconds.
Deferred(collectOk, elapsed) ==
    << MustNewConstMetric(upDesc, collectOk, <<>>),
       MustNewConstMetric(scrapeTimeDesc, elapsed, <<>>) >>

\* Fault: CollectOkAfter that leaves collectOk alone.
CollectOkAfter_IgnoreErr(collectOk, err) == collectOk

\* if err != nil { collectOk = 0 }
CollectOkAfter(collectOk, err) == IF err # "nil" THEN 0 ELSE collectOk

\* ------------------------------------------------------------- registry
\* The (client, monitor) pairs in the order the loops of ServeHTTP visit them.
RECURSIVE MonitorsFrom(_, _)
MonitorsFrom(cls, i) ==
    IF i > Len(cls) THEN <<>>
    ELSE [j \in 1..Len(cls[i]) |-> [client |-> i, monitor |-> cls[i][j]]]
         \o MonitorsFrom(cls, i + 1)

Monitors(cls) == MonitorsFrom(cls, 1)

\* A Register call: collector coll (kind "process", "go" or "sense"; idx is
\* the position in colls of a sense collector) wrapped with label monitor.
Reg(kind, idx, label) == [kind |-> kind, idx |-> idx, monitor |-> label]

\* rg.MustRegister(colls...) in iteration k: every collector appended to
\* colls so far, under the label of this iteration.
CollsRegistrations(k, label) == [i \in 1..k |-> Reg("sense", i, label)]

\* The Register calls of iteration k of the loop, in order:
\* rg.MustRegister(e.colls...) and then rg.MustRegister(colls...).
IterationRegistrations(ms, k) ==
    << Reg("process", 0, Itoa(ms[k].monitor)),
       Reg("go", 0, Itoa(ms[k].monitor)) >>
    \o CollsRegistrations(k, Itoa(ms[k].monitor))

RECURSIVE RegistrationsFrom(_, _)
RegistrationsFrom(ms, k) ==
    IF k > Len(ms) THEN <<>>
    ELSE IterationRegistrations(ms, k) \o RegistrationsFrom(ms, k + 1)

\* The descriptors of a wrapped collector are identified by their names and
\* constant label values: all sense collectors describe the same eight names.
DescKey(r) == <<r.kind, r.monitor>>

\* Registry.Register fails when a descriptor with the same name and constant
\* label values is registered already; MustRegister then panics.
Collides(registered, r) ==
    \E i \in 1..Len(registered) : DescKey(registered[i]) = DescKey(r)

\* Runs the Register calls in order until one fails: the registry, whether
\* MustRegister panicked, and the calls made (the failing one included).
RECURSIVE MustRegisterFrom(_, _, _)
MustRegisterFrom(calls, i, registered) ==
    IF i > Len(calls)
    THEN [reg |-> registered, panic |-> FALSE, calls |-> calls]
    ELSE IF Collides(registered, calls[i])
         THEN [reg |-> registered, panic |-> TRUE, calls |-> SubSeq(calls, 1, i)]
         ELSE MustRegisterFrom(calls, i + 1, Append(registered, calls[i]))

\* Fault: RegisterLoop that registers e.colls once, ahead of the loop.
RegisterLoop_CollsOnce(cls) ==
    MustRegisterFrom(<< Reg("process", 0, ""), Reg("go", 0, "") >>
                        \o RegistrationsFrom(Monitors(cls), 1), 1, <<>>)

\* The registration loop of ServeHTTP over the monitors of all clients.
RegisterLoop(cls) ==
    MustRegisterFrom(RegistrationsFrom(Monitors(cls), 1), 1, <<>>)

\* ---------------------------------------------------------------- state
VARIABLES
    clients,    \* Exporter.clients: per client, the monitor ids it owns
    timeout,    \* Exporter.timeout
    pc,         \* ServeHTTP: "idle", "gather", "done" or "panicked"
    reg,        \* the registry of this request: the registered collectors
    regCalls,   \* the Register calls ServeHTTP made, the failing one included
    col,        \* one Collect run per registered sense collector
    status,     \* the response status (0 while there is no response)
    body,       \* the samples of the response
    now,        \* the wall clock
    other,      \* a second request in flight while this one is handled
    changed,    \* whether, and from what, the monitor sets changed
                \* between the last request and this one
    cancelled   \* whether the context of this request is cancelled

vars == <<clients, timeout, pc, reg, regCalls, col, status, body, now,
          other, changed, cancelled>>

\* The variables of one request: what ServeHTTP and the collectors it
\* creates for the request own.
Request == [pc |-> pc, reg |-> reg, regCalls |-> regCalls, col |-> col,
            status |-> status, body |-> body, cancelled |-> cancelled]

\* A request that has not entered ServeHTTP.
IdleRequest == [pc |-> "idle", reg |-> <<>>, regCalls |-> <<>>, col |-> <<>>,
                status |-> 0, body |-> <<>>, cancelled |-> FALSE]

\* The monitor sets are those the last request enumerated.
NoChange == [flag |-> FALSE, from |-> <<>>]

\* What is recorded about the last call of the callback.
NoCall == [kind |-> "none", ret |-> "nil", emitted |-> 0,
           hadRealtime |-> FALSE, hadStates |-> FALSE]

\* What is recorded about the Collect run before the present one of the
\* same collector: what the client did and the samples that were sent.
NoRun == [ran |-> FALSE, devicesErr |-> "none", devices |-> <<>>,
          firstRealtime |-> NoMsg, firstStates |-> NoMsg,
          streamErr |-> "none", ch |-> <<>>]

\* Fault: a collector whose context is not that of the request.
NewCollectorWithTimeout_Background(cl, monitor, t, label) ==
    [pc |-> "ready", ctx |-> "background",
     client |-> cl, monitor |-> monitor, timeout |-> t,
     label |-> label,
     hasDeadline |-> FALSE, deadline |-> 0, start |-> 0, collectOk |-> 1,
     devices |-> <<>>, cb |-> NewCallbackContainer(<<>>), ch |-> <<>>,
     devicesErr |-> "none", streamErr |-> "none", expired |-> FALSE,
     ncalls |-> 0, stopped |-> FALSE, lastCall |-> NoCall,
     firstRealtime |-> NoMsg, firstStates |-> NoMsg,
     described |-> <<>>, calls |-> <<>>, prev |-> NoRun]

\* NewCollectorWithTimeout(r.Context(), cl, m.ID, e.timeout), registered
\* under label; ctx is the context Collect derives its own from, and the
\* fields after timeout are the locals of one Collect run.
\* described holds the descriptors Describe sent when the collector was
\* registered, calls the Client operations Collect has called, in order.
NewCollectorWithTimeout(cl, monitor, t, label) ==
    [pc |-> "ready", ctx |-> "request",
     client |-> cl, monitor |-> monitor, timeout |-> t,
     label |-> label,
     hasDeadline |-> FALSE, deadline |-> 0, start |-> 0, collectOk |-> 1,
     devices |-> <<>>, cb |-> NewCallbackContainer(<<>>), ch |-> <<>>,
     devicesErr |-> "none", streamErr |-> "none", expired |-> FALSE,
     ncalls |-> 0, stopped |-> FALSE, lastCall |-> NoCall,
     firstRealtime |-> NoMsg, firstStates |-> NoMsg,
     described |-> <<>>, calls |-> <<>>, prev |-> NoRun]

\* The Collect runs Gather starts: one per registered sense collector.
Collections(cls, t, registered) ==
    LET sense == SelectSeq(registered, LAMBDA r : r.kind = "sense")
    IN  [i \in 1..Len(sense) |->
            [NewCollectorWithTimeout(Monitors(cls)[sense[i].idx].client,
                                     Monitors(cls)[sense[i].idx].monitor,
                                     t, sense[i].monitor)
                EXCEPT !.described = Describe]]

\* ctx.Done() of the context Collect hands to GetDevices and Stream, a
\* child of the context of the request, which is cancelled or not: the
\* deadline has passed or the parent is cancelled.
DoneIn(c, parentCancelled) ==
    \/ c.hasDeadline /\ now >= c.deadline
    \/ c.ctx = "request" /\ parentCancelled

\* ctx.Done() for a collector of the request being handled.
Expired(c) == DoneIn(c, cancelled)

Init ==
    /\ clients \in ClientConfigs
    /\ timeout \in Timeouts
    /\ pc = "idle"
    /\ reg = <<>>
    /\ regCalls = <<>>
    /\ col = <<>>
    /\ status = 0
    /\ body = <<>>
    /\ now = 0
    /\ other = IdleRequest
    /\ changed = NoChange
    /\ cancelled = FALSE

\* ServeHTTP up to the call of the promhttp handler: the registration loop.
\* A panic of MustRegister ends the handler without a response.
ServeHTTP ==
    /\ pc = "idle"
    /\ LET r == RegisterLoop(clients)
       IN  /\ reg' = r.reg
           /\ regCalls' = r.calls
           /\ pc' = IF r.panic THEN "panicked" ELSE "gather"
           /\ col' = IF r.panic THEN <<>> ELSE Collections(clients, timeout, r.reg)
    /\ UNCHANGED <<clients, timeout, other, changed, cancelled, status, body, now>>

\* Fault: CollectStart that never sets a deadline on the context.
CollectStart_NoDeadline(i) ==
    /\ pc = "gather"
    /\ col[i].pc = "ready"
    /\ col' = [col EXCEPT ![i] =
                 [@ EXCEPT !.pc = "getDevices",
                           !.hasDeadline = FALSE,
                           !.start = now,
                           !.collectOk = 1,
                           !.calls = Append(@, "GetDevices")]]
    /\ UNCHANGED <<clients, timeout, other, changed, cancelled, pc, reg, regCalls, status, body, now>>

\* Fault: CollectStart that sets a deadline for every timeout but zero.
CollectStart_NonZeroDeadline(i) ==
    /\ pc = "gather"
    /\ col[i].pc = "ready"
    /\ col' = [col EXCEPT ![i] =
                 [@ EXCEPT !.pc = "getDevices",
                           !.hasDeadline = (col[i].timeout # 0),
                           !.deadline = now + col[i].timeout,
                           !.start = now,
                           !.collectOk = 1,
                           !.calls = Append(@, "GetDevices")]]
    /\ UNCHANGED <<clients, timeout, other, changed, cancelled, pc, reg, regCalls, status, body, now>>

\* Collect up to the call of GetDevices: the deadline, start and collectOk.
CollectStart(i) ==
    /\ pc = "gather"
    /\ col[i].pc = "ready"
    /\ col' = [col EXCEPT ![i] =
                 [@ EXCEPT !.pc = "getDevices",
                           !.hasDeadline = (col[i].timeout > 0),
                           !.deadline = now + col[i].timeout,
                           !.start = now,
                           !.collectOk = 1,
                           !.calls = Append(@, "GetDevices")]]
    /\ UNCHANGED <<clients, timeout, other, changed, cancelled, pc, reg, regCalls, status, body, now>>

\* Fault: GetDevicesOk that takes the callback container of the collector
\* of another request in flight instead of making one.
GetDevicesOk_SharedContainer(i, devices) ==
    /\ pc = "gather"
    /\ col[i].pc = "getDevices"
    /\ ~Expired(col[i])
    /\ col' = [col EXCEPT ![i] =
                 [@ EXCEPT !.pc = "stream",
                           !.devices = devices,
                           !.devicesErr = "nil",
                           !.cb = IF i <= Len(other.col)
                                     /\ other.col[i].devicesErr = "nil"
                                  THEN [other.col[i].cb EXCEPT
                                           !.devInfo = DevInfo(devices)]
                                  ELSE NewCallbackContainer(devices),
                           !.calls = Append(@, "Stream")]]
    /\ UNCHANGED <<clients, timeout, other, changed, cancelled, pc, reg, regCalls, status, body, now>>

\* Fault: GetDevicesOk that makes the callback container once per
\* collector and takes it up again in a later Collect.
GetDevicesOk_KeepContainer(i, devices) ==
    /\ pc = "gather"
    /\ col[i].pc = "getDevices"
    /\ ~Expired(col[i])
    /\ col' = [col EXCEPT ![i] =
                 [@ EXCEPT !.pc = "stream",
                           !.devices = devices,
                           !.devicesErr = "nil",
                           !.cb = IF col[i].prev.ran
                                  THEN [col[i].cb EXCEPT
                                           !.devInfo = DevInfo(devices)]
                                  ELSE NewCallbackContainer(devices),
                           !.calls = Append(@, "Stream")]]
    /\ UNCHANGED <<clients, timeout, other, changed, cancelled, pc, reg, regCalls, status, body, now>>

\* GetDevices returns devices: devInfo and the callback container are built
\* and Stream is called.
GetDevicesOk(i, devices) ==
    /\ pc = "gather"
    /\ col[i].pc = "getDevices"
    /\ ~Expired(col[i])
    /\ col' = [col EXCEPT ![i] =
                 [@ EXCEPT !.pc = "stream",
                           !.devices = devices,
                           !.devicesErr = "nil",
                           !.cb = NewCallbackContainer(devices),
                           !.calls = Append(@, "Stream")]]
    /\ UNCHANGED <<clients, timeout, other, changed, cancelled, pc, reg, regCalls, status, body, now>>

\* Fault: GetDevicesErr without the return: Collect goes on to Stream.
GetDevicesErr_NoReturn(i) ==
    /\ pc = "gather"
    /\ col[i].pc = "getDevices"
    /\ col' = [col EXCEPT ![i] =
                 [@ EXCEPT !.pc = "stream",
                           !.devicesErr = "error",
                           !.collectOk = 0,
                           !.calls = Append(@, "Stream")]]
    /\ UNCHANGED <<clients, timeout, other, changed, cancelled, pc, reg, regCalls, status, body, now>>

\* GetDevices returns an error (the deadline of the context included):
\* collectOk = 0, return, and the deferred function runs.
GetDevicesErr(i) ==
    /\ pc = "gather"
    /\ col[i].pc = "getDevices"
    /\ col' = [col EXCEPT ![i] =
                 [@ EXCEPT !.pc = "done",
                           !.devicesErr = "error",
                           !.expired = Expired(col[i]),
                           !.collectOk = 0,
                           !.ch = @ \o Deferred(0, now - col[i].start)]]
    /\ UNCHANGED <<clients, timeout, other, changed, cancelled, pc, reg, regCalls, status, body, now>>

\* Stream hands a message to cb.callback.
StreamCallback(i, msg) ==
    /\ pc = "gather"
    /\ col[i].pc = "stream"
    /\ col[i].ncalls < MaxCalls
    /\ ~Expired(col[i])
    /\ LET r == callback(col[i].cb, msg)
       IN  col' = [col EXCEPT ![i] =
                 [@ EXCEPT !.cb = r.e,
                           !.ch = @ \o r.out,
                           !.ncalls = @ + 1,
                           !.stopped = @ \/ r.ret = "Stop",
                           !.lastCall = [kind |-> msg.kind, ret |-> r.ret,
                                         emitted |-> Len(r.out),
                                         hadRealtime |-> col[i].cb.gotRealtime,
                                         hadStates |-> col[i].cb.gotStates],
                           !.firstRealtime =
                               IF msg.kind = "RealtimeUpdate" /\ @ = NoMsg
                               THEN msg ELSE @,
                           !.firstStates =
                               IF msg.kind = "DeviceStates" /\ @ = NoMsg
                               THEN msg ELSE @]]
    /\ UNCHANGED <<clients, timeout, other, changed, cancelled, pc, reg, regCalls, status, body, now>>

\* Fault: AfterStream that returns on the error, before the backfill loop.
AfterStream_ReturnOnErr(c, err) ==
    [c EXCEPT !.pc = "done",
              !.streamErr = err,
              !.expired = Expired(c),
              !.collectOk = CollectOkAfter(c.collectOk, err),
              !.ch = c.ch \o (IF err # "nil" THEN <<>>
                               ELSE Backfill(c.devices, c.cb.seenWatts))
                          \o Deferred(CollectOkAfter(c.collectOk, err),
                                      now - c.start)]

\* Collect from the return of Stream with err to its end: the error check,
\* the backfill loop and the deferred function.
AfterStream(c, err) ==
    [c EXCEPT !.pc = "done",
              !.streamErr = err,
              !.expired = Expired(c),
              !.collectOk = CollectOkAfter(c.collectOk, err),
              !.ch = c.ch \o Backfill(c.devices, c.cb.seenWatts)
                          \o Deferred(CollectOkAfter(c.collectOk, err),
                                      now - c.start)]

\* Stream returns nil: the stream ended, or it was torn down after Stop.
StreamReturnsNil(i) ==
    /\ pc = "gather"
    /\ col[i].pc = "stream"
    /\ ~Expired(col[i]) \/ col[i].stopped
    /\ col' = [col EXCEPT ![i] = AfterStream(@, "nil")]
    /\ UNCHANGED <<clients, timeout, other, changed, cancelled, pc, reg, regCalls, status, body, now>>

\* Stream hands the Stop of the callback back as its result.
StreamReturnsStop(i) ==
    /\ pc = "gather"
    /\ col[i].pc = "stream"
    /\ col[i].stopped
    /\ col' = [col EXCEPT ![i] = AfterStream(@, "Stop")]
    /\ UNCHANGED <<clients, timeout, other, changed, cancelled, pc, reg, regCalls, status, body, now>>

\* Fault: StreamReturnsErr where Collect drops the error of Stream.
StreamReturnsErr_ErrDropped(i) ==
    /\ pc = "gather"
    /\ col[i].pc = "stream"
    /\ col' = [col EXCEPT ![i] = AfterStream(@, "nil")]
    /\ UNCHANGED <<clients, timeout, other, changed, cancelled, pc, reg, regCalls, status, body, now>>

\* Stream returns an error: a failure of the stream or the expired deadline.
StreamReturnsErr(i) ==
    /\ pc = "gather"
    /\ col[i].pc = "stream"
    /\ col' = [col EXCEPT ![i] = AfterStream(@, "error")]
    /\ UNCHANGED <<clients, timeout, other, changed, cancelled, pc, reg, regCalls, status, body, now>>

\* The clock advances while a GetDevices or Stream call is pending.
Tick ==
    /\ pc = "gather"
    /\ now < MaxTime
    /\ \E i \in 1..Len(col) : col[i].pc \in {"getDevices", "stream"}
    /\ now' = now + 1
    /\ UNCHANGED <<clients, timeout, other, changed, cancelled, pc, reg, regCalls, col, status, body>>

\* The samples a registered collector contributes to Gather, each with the
\* label of its registration.
RECURSIVE GatherFrom(_, _, _)
GatherFrom(registered, cs, i) ==
    IF i > Len(registered) THEN <<>>
    ELSE (CASE registered[i].kind = "process" ->
                 << [name |-> "process_cpu_seconds_total", labels |-> <<>>,
                     value |-> 0, monitor |-> registered[i].monitor] >>
            [] registered[i].kind = "go" ->
                 << [name |-> "go_goroutines", labels |-> <<>>,
                     value |-> 0, monitor |-> registered[i].monitor] >>
            [] OTHER ->
                 LET n == Cardinality({j \in 1..i : registered[j].kind = "sense"})
                 IN  [k \in 1..Len(cs[n].ch) |->
                        [name |-> cs[n].ch[k].name, labels |-> cs[n].ch[k].labels,
                         value |-> cs[n].ch[k].value,
                         monitor |-> registered[i].monitor]])
         \o GatherFrom(registered, cs, i + 1)

Gather(registered, cs) == GatherFrom(registered, cs, 1)

\* Gather fails when two collected samples have the same name and label values.
GatherError(samples) ==
    \E i, j \in 1..Len(samples) :
        /\ i < j
        /\ samples[i].name = samples[j].name
        /\ samples[i].labels = samples[j].labels
        /\ samples[i].monitor = samples[j].monitor

\* Fault: StatusFor that answers 503 when a monitor is down.
StatusFor_DownIs503(samples) ==
    IF GatherError(samples) THEN 500
    ELSE IF \E k \in 1..Len(samples) :
               samples[k].name = "sense_monitor_up" /\ samples[k].value = 0
         THEN 503 ELSE 200

\* promhttp.HandlerFor(reg, HandlerOpts{}): 500 on a Gather error, else 200.
StatusFor(samples) == IF GatherError(samples) THEN 500 ELSE 200

\* Fault: Render that does not wait for the Collect runs to return.
Render_NoWait ==
    /\ pc = "gather"
    /\ body' = IF GatherError(Gather(reg, col)) THEN <<>> ELSE Gather(reg, col)
    /\ status' = StatusFor(Gather(reg, col))
    /\ pc' = "done"
    /\ UNCHANGED <<clients, timeout, other, changed, cancelled, reg, regCalls, col, now>>

\* promhttp.HandlerFor(reg, ...).ServeHTTP once every Collect has returned.
Render ==
    /\ pc = "gather"
    /\ \A i \in 1..Len(col) : col[i].pc = "done"
    /\ body' = IF GatherError(Gather(reg, col)) THEN <<>> ELSE Gather(reg, col)
    /\ status' = StatusFor(Gather(reg, col))
    /\ pc' = "done"
    /\ UNCHANGED <<clients, timeout, other, changed, cancelled, reg, regCalls, col, now>>

\* The next request starts from a fresh registry.
NextRequest ==
    /\ pc \in {"done", "panicked"}
    /\ pc' = "idle"
    /\ reg' = <<>>
    /\ regCalls' = <<>>
    /\ col' = <<>>
    /\ status' = 0
    /\ body' = <<>>
    /\ now' = 0
    /\ changed' = NoChange
    /\ cancelled' = FALSE
    /\ UNCHANGED <<clients, timeout, other>>

Next ==
    \/ ServeHTTP
    \/ \E i \in 1..Len(col) : CollectStart(i)
    \/ \E i \in 1..Len(col), devices \in Catalogs : GetDevicesOk(i, devices)
    \/ \E i \in 1..Len(col) : GetDevicesErr(i)
    \/ \E i \in 1..Len(col), msg \in Messages : StreamCallback(i, msg)
    \/ \E i \in 1..Len(col) : StreamReturnsNil(i)
    \/ \E i \in 1..Len(col) : StreamReturnsStop(i)
    \/ \E i \in 1..Len(col) : StreamReturnsErr(i)
    \/ Tick
    \/ Render
    \/ NextRequest

Spec == Init /\ [][Next]_vars

\* Between two requests the monitors the clients own change: GetMonitors
\* of the next request returns the new sets.
MonitorsChange ==
    /\ pc \in {"done", "panicked"}
    /\ \E cls \in ClientConfigs :
          /\ Len(cls) = Len(clients)
          /\ cls # clients
          /\ clients' = cls
    /\ changed' = [flag |-> TRUE, from |-> Monitors(clients)]
    /\ pc' = "idle"
    /\ reg' = <<>>
    /\ regCalls' = <<>>
    /\ col' = <<>>
    /\ status' = 0
    /\ body' = <<>>
    /\ now' = 0
    /\ cancelled' = FALSE
    /\ UNCHANGED <<timeout, other>>

DynNext ==
    \/ Next
    \/ MonitorsChange

\* Requests served one after the other by an exporter whose clients gain
\* and lose monitors between them.
DynSpec == Init /\ [][DynNext]_vars

\* The inputs of two requests in flight at once: one client owning one
\* monitor, no deadline, two catalogs and one message of each variant.
ConcCatalogs == { <<Device("D1")>>, <<Device("D2"), Device("D1")>> }

ConcMessages ==
    { RealtimeUpdate(<<[ID |-> "D1", W |-> 25]>>, <<120, 119>>, 100),
      DeviceStates(<<[DeviceID |-> "D1", Mode |-> "idle", State |-> "online"]>>),
      [kind |-> "Hello", W |-> 0, Hz |-> 0, Voltage |-> <<>>,
       Devices |-> <<>>, States |-> <<>>] }

ConcInit ==
    /\ clients = << <<7>> >>
    /\ timeout = 0
    /\ pc = "idle"
    /\ reg = <<>>
    /\ regCalls = <<>>
    /\ col = <<>>
    /\ status = 0
    /\ body = <<>>
    /\ now = 0
    /\ other = IdleRequest
    /\ changed = NoChange
    /\ cancelled = FALSE

\* The scheduler turns from the goroutines of one request to those of the
\* other request in flight.
Switch ==
    /\ other' = Request
    /\ pc' = other.pc
    /\ reg' = other.reg
    /\ regCalls' = other.regCalls
    /\ col' = other.col
    /\ status' = other.status
    /\ body' = other.body
    /\ cancelled' = other.cancelled
    /\ UNCHANGED <<clients, timeout, now, changed>>

ConcNext ==
    \/ ServeHTTP
    \/ \E i \in 1..Len(col) : CollectStart(i)
    \/ \E i \in 1..Len(col), devices \in ConcCatalogs : GetDevicesOk(i, devices)
    \/ \E i \in 1..Len(col) : GetDevicesErr(i)
    \/ \E i \in 1..Len(col), msg \in ConcMessages :
          col[i].ncalls < ConcCalls /\ StreamCallback(i, msg)
    \/ \E i \in 1..Len(col) : StreamReturnsNil(i)
    \/ \E i \in 1..Len(col) : StreamReturnsStop(i)
    \/ \E i \in 1..Len(col) : StreamReturnsErr(i)
    \/ Render
    \/ Switch

\* Two requests served at once, their steps interleaved in any order.
ConcSpec == ConcInit /\ [][ConcNext]_vars

\* The peer of the request being handled goes away while Gather runs: the
\* HTTP server cancels r.Context().
CancelRequest ==
    /\ pc = "gather"
    /\ ~cancelled
    /\ cancelled' = TRUE
    /\ UNCHANGED <<clients, timeout, other, changed, pc, reg, regCalls, col,
                   status, body, now>>

CancelNext ==
    \/ ConcNext
    \/ CancelRequest

\* Two requests served at once, each of which may be cancelled.
CancelSpec == ConcInit /\ [][CancelNext]_vars

\* Collect is called again on a collector whose Collect has returned, as
\* a registry that keeps the collector does on its next Gather. The locals
\* of the run that returned are gone; cb still holds its container, which
\* no code refers to any more.
CollectAgain(i) ==
    /\ pc = "gather"
    /\ col[i].pc = "done"
    /\ ~col[i].prev.ran
    /\ col' = [col EXCEPT ![i] =
                 [@ EXCEPT !.pc = "ready",
                           !.prev = [ran |-> TRUE,
                                     devicesErr |-> col[i].devicesErr,
                                     devices |-> col[i].devices,
                                     firstRealtime |-> col[i].firstRealtime,
                                     firstStates |-> col[i].firstStates,
                                     streamErr |-> col[i].streamErr,
                                     ch |-> col[i].ch],
                           !.hasDeadline = FALSE,
                           !.deadline = 0,
                           !.start = 0,
                           !.collectOk = 1,
                           !.devices = <<>>,
                           !.ch = <<>>,
                           !.devicesErr = "none",
                           !.streamErr = "none",
                           !.expired = FALSE,
                           !.ncalls = 0,
                           !.stopped = FALSE,
                           !.lastCall = NoCall,
                           !.firstRealtime = NoMsg,
                           !.firstStates = NoMsg,
                           !.calls = <<>>]]
    /\ UNCHANGED <<clients, timeout, other, changed, cancelled, pc, reg,
                   regCalls, status, body, now>>

RerunNext ==
    \/ ServeHTTP
    \/ \E i \in 1..Len(col) : CollectStart(i)
    \/ \E i \in 1..Len(col), devices \in ConcCatalogs : GetDevicesOk(i, devices)
    \/ \E i \in 1..Len(col) : GetDevicesErr(i)
    \/ \E i \in 1..Len(col), msg \in ConcMessages :
          col[i].ncalls < ConcCalls /\ StreamCallback(i, msg)
    \/ \E i \in 1..Len(col) : StreamReturnsNil(i)
    \/ \E i \in 1..Len(col) : StreamReturnsStop(i)
    \/ \E i \in 1..Len(col) : StreamReturnsErr(i)
    \/ \E i \in 1..Len(col) : CollectAgain(i)
    \/ Render

\* One request whose collector is collected a second time.
RerunSpec == ConcInit /\ [][RerunNext]_vars

\* A pending GetDevices or Stream call returns once its context is done.
ReturnsOnCancel(i) ==
    /\ Expired(col[i])
    /\ \/ GetDevicesErr(i)
       \/ StreamReturnsNil(i)
       \/ StreamReturnsStop(i)
       \/ StreamReturnsErr(i)

\* Time passes, the registry calls Collect of every registered collector,
\* and the client honours the cancellation of the context.
Fairness ==
    /\ WF_vars(Tick)
    /\ WF_vars(\E i \in 1..Len(col) : CollectStart(i))
    /\ WF_vars(\E i \in 1..Len(col) : ReturnsOnCancel(i))

LiveSpec == Init /\ [][Next]_vars /\ Fairness

TypeOK ==
    /\ pc \in {"idle", "gather", "done", "panicked"}
    /\ status \in {0, 200, 500}
    /\ now \in 0..MaxTime
    /\ cancelled \in BOOLEAN
    /\ \A i \in 1..Len(col) :
          /\ col[i].pc \in {"ready", "getDevices", "stream", "done"}
          /\ col[i].collectOk \in {0, 1}
          /\ col[i].ncalls \in 0..MaxCalls

\* --------------------------------------------------------------- claims
\* The positions of the samples named name in the channel ch.
Named(ch, name) == {k \in 1..Len(ch) : ch[k].name = name}

\* The positions of the device_watts samples of device id in ch.
WattsOf(ch, id) ==
    {k \in Named(ch, "sense_device_watts") : ch[k].labels[1] = id}

\* C1: every Collect run emits exactly one sense_monitor_up and exactly one
\* sense_scrape_time_seconds sample, whatever the exit path (GetDevices
\* error, Stream error, expired deadline, success); a run that has not
\* returned has emitted neither.
C1_UpAndScrapeTimeOnce ==
    \A i \in 1..Len(col) :
        /\ Cardinality(Named(col[i].ch, "sense_monitor_up"))
              = (IF col[i].pc = "done" THEN 1 ELSE 0)
        /\ Cardinality(Named(col[i].ch, "sense_scrape_time_seconds"))
              = (IF col[i].pc = "done" THEN 1 ELSE 0)

\* A Collect run that ended by the expired deadline, after samples of a
\* Realtime Update were sent.
C1_Witness ==
    \E i \in 1..Len(col) :
        /\ col[i].pc = "done"
        /\ col[i].expired
        /\ col[i].streamErr = "error"
        /\ col[i].firstRealtime # NoMsg
        /\ Cardinality(Named(col[i].ch, "sense_monitor_up")) = 1
        /\ Cardinality(Named(col[i].ch, "sense_scrape_time_seconds")) = 1

\* C2: when GetDevices returns an error, Collect emits up = 0 and
\* scrape_time_seconds and no other sample.
C2_CatalogErrorOnlyUpAndScrapeTime ==
    \A i \in 1..Len(col) :
        (col[i].pc = "done" /\ col[i].devicesErr = "error") =>
            /\ Len(col[i].ch) = 2
            /\ col[i].ch[1] = [name |-> "sense_monitor_up", labels |-> <<>>,
                               value |-> 0]
            /\ col[i].ch[2].name = "sense_scrape_time_seconds"
            /\ col[i].ch[2].value >= 0
            /\ \A n \in {"sense_device_watts", "sense_device_active",
                         "sense_device_online", "sense_monitor_watts",
                         "sense_monitor_hz", "sense_monitor_volts"} :
                  Named(col[i].ch, n) = {}

\* A Collect run that returned after GetDevices failed.
C2_Witness ==
    \E i \in 1..Len(col) :
        /\ col[i].pc = "done"
        /\ col[i].devicesErr = "error"
        /\ Len(col[i].ch) = 2

\* Whether the sequence part occurs in ch as a block of consecutive samples.
Contains(ch, part) ==
    \E k \in 0..(Len(ch) - Len(part)) :
        \A j \in 1..Len(part) : ch[k + j] = part[j]

\* C3: when Stream returns an error other than Stop, Collect emits up = 0
\* and the samples the callback sent before the error stay in the output:
\* the samples of each variant that was seen are in the channel.
C3_StreamErrorKeepsSamples ==
    \A i \in 1..Len(col) :
        (col[i].pc = "done" /\ col[i].streamErr = "error") =>
            /\ \A k \in Named(col[i].ch, "sense_monitor_up") :
                  col[i].ch[k].value = 0
            /\ Named(col[i].ch, "sense_monitor_up") # {}
            /\ col[i].firstRealtime # NoMsg =>
                  Contains(col[i].ch,
                           RealtimeSamples(DevInfo(col[i].devices),
                                           col[i].firstRealtime))
            /\ col[i].firstStates # NoMsg =>
                  Contains(col[i].ch,
                           StatesSamples(DevInfo(col[i].devices),
                                         col[i].firstStates))

\* A Stream that failed after a Realtime Update with devices and voltages
\* was handled and before any Device State Batch arrived.
C3_Witness ==
    \E i \in 1..Len(col) :
        /\ col[i].pc = "done"
        /\ col[i].streamErr = "error"
        /\ col[i].firstRealtime # NoMsg
        /\ Len(col[i].firstRealtime.Devices) > 0
        /\ col[i].firstStates = NoMsg
        /\ Named(col[i].ch, "sense_monitor_watts") # {}
        /\ col[i].collectOk = 0

Reported(c) ==
    {c.firstRealtime.Devices[k].ID : k \in 1..Len(c.firstRealtime.Devices)}

C6_CooperativeStopIsSuccess ==
    \A i \in 1..Len(col) :
        (/\ col[i].pc = "done"
         /\ col[i].stopped
         /\ col[i].streamErr \in {"nil", "Stop"}) =>
            \A k \in Named(col[i].ch, "sense_monitor_up") :
                col[i].ch[k].value = 1

\* The samples one delivery of the first Realtime Update, respectively of
\* the first Device State Batch, of the run produces.
OnceRealtime(c) ==
    IF c.firstRealtime = NoMsg THEN <<>>
    ELSE RealtimeSamples(DevInfo(c.devices), c.firstRealtime)

OnceStates(c) ==
    IF c.firstStates = NoMsg THEN <<>>
    ELSE StatesSamples(DevInfo(c.devices), c.firstStates)

\* Whether the last call of the callback handled a variant seen before.
Redelivery(c) ==
    \/ c.lastCall.kind = "RealtimeUpdate" /\ c.lastCall.hadRealtime
    \/ c.lastCall.kind = "DeviceStates" /\ c.lastCall.hadStates

\* C7: a call of the callback with a variant that was seen before sends no
\* sample and returns nil, and however many messages were delivered the
\* channel holds the samples of one delivery of each variant seen.
C7_RedeliveryIsNoOp ==
    \A i \in 1..Len(col) :
        /\ Redelivery(col[i]) =>
              /\ col[i].lastCall.emitted = 0
              /\ col[i].lastCall.ret = "nil"
        /\ col[i].pc = "stream" =>
              col[i].ch \in {OnceRealtime(col[i]) \o OnceStates(col[i]),
                             OnceStates(col[i]) \o OnceRealtime(col[i])}

\* A second Realtime Update was delivered after the first one sent samples.
C7_Witness ==
    \E i \in 1..Len(col) :
        /\ col[i].pc = "stream"
        /\ col[i].ncalls >= 2
        /\ col[i].lastCall.kind = "RealtimeUpdate"
        /\ col[i].lastCall.hadRealtime
        /\ Len(col[i].ch) > 2

\* Whether the last call of the callback set the second of the two flags.
SetSecondFlag(c) ==
    \/ c.lastCall.kind = "RealtimeUpdate"
          /\ ~c.lastCall.hadRealtime /\ c.lastCall.hadStates
    \/ c.lastCall.kind = "DeviceStates"
          /\ ~c.lastCall.hadStates /\ c.lastCall.hadRealtime

\* C8: the callback returns Stop only when gotRealtime and gotStates are
\* both set, and the call that sets the second of the two flags returns
\* Stop, in either arrival order.
C8_StopWhenBothSeen ==
    \A i \in 1..Len(col) :
        /\ (col[i].lastCall.ret = "Stop" \/ col[i].stopped) =>
              (col[i].cb.gotRealtime /\ col[i].cb.gotStates)
        /\ SetSecondFlag(col[i]) => col[i].lastCall.ret = "Stop"

\* The Device State Batch arrived first and the Realtime Update that
\* followed it made the callback return Stop.
C8_Witness ==
    \E i \in 1..Len(col) :
        /\ col[i].lastCall.kind = "RealtimeUpdate"
        /\ col[i].lastCall.hadStates
        /\ ~col[i].lastCall.hadRealtime
        /\ col[i].lastCall.ret = "Stop"
        /\ col[i].ncalls = 2

\* C9: a response of ServeHTTP has status 200 whatever the outcome of the
\* Collect runs (GetDevices error, Stream error, expired deadline).
C9_ResponseIs200 ==
    /\ status \in {0, 200}
    /\ pc = "done" => status = 200

\* A response after a Collect run that ended by the expired deadline.
C9_Witness ==
    /\ pc = "done"
    /\ status = 200
    /\ \E i \in 1..Len(col) :
          /\ col[i].collectOk = 0
          /\ col[i].expired
          /\ \E k \in 1..Len(body) :
                body[k].name = "sense_monitor_up" /\ body[k].value = 0

\* C10: ServeHTTP registers one collector per (client, monitor) pair, each
\* only under the label of its own monitor, and no two Register calls carry
\* the same metric names with the same label values.
C10_OwnLabelNoCollision ==
    /\ \A k \in 1..Len(regCalls) :
          regCalls[k].kind = "sense" =>
              regCalls[k].monitor
                 = Itoa(Monitors(clients)[regCalls[k].idx].monitor)
    /\ \A j, k \in 1..Len(regCalls) :
          j < k => DescKey(regCalls[j]) # DescKey(regCalls[k])
    /\ pc \in {"gather", "done"} =>
          Cardinality({k \in 1..Len(reg) : reg[k].kind = "sense"})
             = Len(Monitors(clients))

\* The names of the samples of the process and runtime collectors.
ProcessNames == {"process_cpu_seconds_total", "go_goroutines"}

\* The names of the samples a Collector can send.
SenseNames == {Describe[k].fqName : k \in 1..Len(Describe)}

\* The samples of channel ch as the response shows them under label.
Labelled(ch, label) ==
    {[name |-> ch[k].name, labels |-> ch[k].labels, value |-> ch[k].value,
      monitor |-> label] : k \in 1..Len(ch)}

\* The samples of the response body, as a set.
BodySet == {body[k] : k \in 1..Len(body)}

\* C11: in a scrape over several monitors the request is answered, and the
\* response holds the full sample set, with up = 1, of every monitor whose
\* collection succeeded, whatever happened to the other monitors.
C11_FailureIsolated ==
    Len(Monitors(clients)) >= 2 =>
        /\ pc # "panicked"
        /\ pc = "done" =>
              /\ status = 200
              /\ Len(col) = Len(Monitors(clients))
              /\ \A i \in 1..Len(col) :
                    col[i].collectOk = 1 =>
                        /\ Labelled(col[i].ch, col[i].label) \subseteq BodySet
                        /\ [name |-> "sense_monitor_up", labels |-> <<>>,
                            value |-> 1, monitor |-> col[i].label] \in BodySet

\* C12: with no monitor configured across all clients the response has
\* status 200, holds process/runtime samples and holds no sense_* sample.
C12_ZeroMonitorsProcessMetrics ==
    (pc = "done" /\ Len(Monitors(clients)) = 0) =>
        /\ status = 200
        /\ \E k \in 1..Len(body) : body[k].name \in ProcessNames
        /\ \A k \in 1..Len(body) : body[k].name \notin SenseNames

\* C13: with no clients, or only clients that own no monitor, ServeHTTP
\* makes no Register call, starts no Collect run and answers with status
\* 200 and an empty body.
C13_NoMonitorsEmptyResponse ==
    Len(Monitors(clients)) = 0 =>
        /\ pc # "panicked"
        /\ reg = <<>>
        /\ regCalls = <<>>
        /\ col = <<>>
        /\ pc = "done" => (status = 200 /\ body = <<>>)

\* The response of a request to an exporter whose only client owns no
\* monitor.
C13_Witness ==
    /\ clients = << <<>> >>
    /\ pc = "done"
    /\ status = 200
    /\ body = <<>>
    /\ regCalls = <<>>

\* C14: with a timeout greater than zero and a client that returns once
\* its context is cancelled, every Collect run of a scrape eventually
\* returns with one up and one scrape_time_seconds sample, whatever the
\* stream delivers.
C14_DeadlineEndsCollect ==
    (pc = "gather" /\ timeout > 0) ~>
        \A i \in 1..Len(col) :
            /\ col[i].pc = "done"
            /\ Cardinality(Named(col[i].ch, "sense_monitor_up")) = 1
            /\ Cardinality(Named(col[i].ch, "sense_scrape_time_seconds")) = 1

\* A Collect run with a deadline that returned on the expiry while the
\* stream had delivered neither variant.
C14_Witness ==
    \E i \in 1..Len(col) :
        /\ col[i].timeout > 0
        /\ col[i].pc = "done"
        /\ col[i].devicesErr = "nil"
        /\ col[i].expired
        /\ ~col[i].cb.gotRealtime
        /\ ~col[i].cb.gotStates
        /\ Cardinality(Named(col[i].ch, "sense_monitor_up")) = 1

SampleSet(ch) ==
    {ch[k] : k \in 1..Len(ch) \ Named(ch, "sense_scrape_time_seconds")}

\* A Collect run over the catalog devices whose stream delivers the message
\* first and then the message second and returns err: the samples sent
\* (scrape_time_seconds left out) and what the second call returned.
RunInOrder(devices, first, second, err) ==
    LET r1 == callback(NewCallbackContainer(devices), first)
        r2 == callback(r1.e, second)
    IN  [samples |-> r1.out \o r2.out
                        \o Backfill(devices, r2.e.seenWatts)
                        \o << MustNewConstMetric(upDesc,
                                 CollectOkAfter(1, err), <<>>) >>,
         ret |-> r2.ret]

\* C16: a Collect run that saw both variants emitted the set of samples,
\* the up value included, that the run over the same catalog, messages and
\* Stream result emits in either arrival order, Realtime Update first or
\* Device State Batch first, and in both orders the second call returns Stop.
C16_OrderIndependent ==
    \A i \in 1..Len(col) :
        (/\ col[i].pc = "done"
         /\ col[i].firstRealtime # NoMsg
         /\ col[i].firstStates # NoMsg) =>
            LET a == RunInOrder(col[i].devices, col[i].firstRealtime,
                                col[i].firstStates, col[i].streamErr)
                b == RunInOrder(col[i].devices, col[i].firstStates,
                                col[i].firstRealtime, col[i].streamErr)
            IN  /\ SampleSet(a.samples) = SampleSet(b.samples)
                /\ SampleSet(col[i].ch) = SampleSet(a.samples)
                /\ a.ret = "Stop"
                /\ b.ret = "Stop"

\* A successful run in which the Device State Batch arrived before the
\* Realtime Update, both with entries.
C16_Witness ==
    \E i \in 1..Len(col) :
        /\ col[i].pc = "done"
        /\ col[i].streamErr = "nil"
        /\ col[i].firstRealtime # NoMsg
        /\ col[i].firstStates # NoMsg
        /\ Len(col[i].firstStates.States) > 0
        /\ Len(col[i].firstRealtime.Devices) > 0
        /\ SubSeq(col[i].ch, 1, Len(OnceStates(col[i]))) = OnceStates(col[i])
        /\ col[i].collectOk = 1

\* C17: a Collect run that was handed no Realtime Update has sent no
\* monitor_watts, monitor_hz or monitor_volts sample and only device_watts
\* samples of value 0; a run that was handed no Device State Batch has sent
\* no device_active and no device_online sample.
C17_AbsentVariantAbsentSamples ==
    \A i \in 1..Len(col) :
        /\ col[i].firstRealtime = NoMsg =>
              /\ Named(col[i].ch, "sense_monitor_watts") = {}
              /\ Named(col[i].ch, "sense_monitor_hz") = {}
              /\ Named(col[i].ch, "sense_monitor_volts") = {}
              /\ \A k \in Named(col[i].ch, "sense_device_watts") :
                    col[i].ch[k].value = 0
        /\ col[i].firstStates = NoMsg =>
              /\ Named(col[i].ch, "sense_device_active") = {}
              /\ Named(col[i].ch, "sense_device_online") = {}

\* A finished run over a catalog of two devices whose stream delivered a
\* Device State Batch with an active device and no Realtime Update.
C17_Witness ==
    \E i \in 1..Len(col) :
        /\ col[i].pc = "done"
        /\ col[i].devicesErr = "nil"
        /\ Len(col[i].devices) = 2
        /\ col[i].firstRealtime = NoMsg
        /\ col[i].firstStates # NoMsg
        /\ \E k \in Named(col[i].ch, "sense_device_active") :
              col[i].ch[k].value = 1
        /\ Cardinality(Named(col[i].ch, "sense_device_watts")) = 2
        /\ Named(col[i].ch, "sense_monitor_watts") = {}

\* The positions in ch of the samples named name of device id.
OfDevice(ch, name, id) == {k \in Named(ch, name) : ch[k].labels[1] = id}

\* C18: once the first Realtime Update of a run was handled, the channel
\* holds exactly one device_watts sample for every device the update
\* reports, with the reported watts, exactly one monitor_watts and exactly
\* one monitor_hz sample with the values of the update, and gotRealtime is
\* set; while Stream runs these are the only device_watts samples.
C18_FirstRealtimeSamples ==
    \A i \in 1..Len(col) :
        col[i].firstRealtime # NoMsg =>
            /\ \A d \in 1..Len(col[i].firstRealtime.Devices) :
                  /\ Cardinality(WattsOf(col[i].ch,
                        col[i].firstRealtime.Devices[d].ID)) = 1
                  /\ \A k \in WattsOf(col[i].ch,
                                      col[i].firstRealtime.Devices[d].ID) :
                        col[i].ch[k].value = col[i].firstRealtime.Devices[d].W
            /\ col[i].pc = "stream" =>
                  Cardinality(Named(col[i].ch, "sense_device_watts"))
                     = Len(col[i].firstRealtime.Devices)
            /\ Cardinality(Named(col[i].ch, "sense_monitor_watts")) = 1
            /\ \A k \in Named(col[i].ch, "sense_monitor_watts") :
                  col[i].ch[k] = [name |-> "sense_monitor_watts",
                                  labels |-> <<>>,
                                  value |-> col[i].firstRealtime.W]
            /\ Cardinality(Named(col[i].ch, "sense_monitor_hz")) = 1
            /\ \A k \in Named(col[i].ch, "sense_monitor_hz") :
                  col[i].ch[k] = [name |-> "sense_monitor_hz",
                                  labels |-> <<>>,
                                  value |-> col[i].firstRealtime.Hz]
            /\ col[i].cb.gotRealtime

\* The first Realtime Update of the run reported a device drawing no power
\* and the call that handled it was the last one so far.
C18_Witness ==
    \E i \in 1..Len(col) :
        /\ col[i].pc = "stream"
        /\ col[i].lastCall.kind = "RealtimeUpdate"
        /\ ~col[i].lastCall.hadRealtime
        /\ \E d \in 1..Len(col[i].firstRealtime.Devices) :
              col[i].firstRealtime.Devices[d].W = 0
        /\ col[i].lastCall.emitted = Len(col[i].firstRealtime.Devices)
                                       + Len(col[i].firstRealtime.Voltage) + 2
        /\ col[i].cb.gotRealtime

\* The channel label of the sample of a voltage-array index, zero-based.
ChannelLabels == <<"0", "1", "2", "3">>

\* C19: once the first Realtime Update, with a voltage array of length n,
\* was handled, the channel holds exactly n monitor_volts samples: for
\* every index of the array one sample with label channel = the zero-based
\* index as a string and the value at that index.
C19_VoltsPerChannel ==
    \A i \in 1..Len(col) :
        col[i].firstRealtime # NoMsg =>
            /\ Cardinality(Named(col[i].ch, "sense_monitor_volts"))
                  = Len(col[i].firstRealtime.Voltage)
            /\ \A j \in 1..Len(col[i].firstRealtime.Voltage) :
                  \E k \in Named(col[i].ch, "sense_monitor_volts") :
                      col[i].ch[k] = [name |-> "sense_monitor_volts",
                                      labels |-> << ChannelLabels[j] >>,
                                      value |-> col[i].firstRealtime.Voltage[j]]

\* A Realtime Update with two voltage readings was handled: channel "0" and
\* channel "1" are in the channel with different values.
C19_Witness ==
    \E i \in 1..Len(col) :
        /\ col[i].firstRealtime # NoMsg
        /\ Len(col[i].firstRealtime.Voltage) = 2
        /\ \E k \in Named(col[i].ch, "sense_monitor_volts") :
              col[i].ch[k].labels = <<"0">> /\ col[i].ch[k].value = 120
        /\ \E k \in Named(col[i].ch, "sense_monitor_volts") :
              col[i].ch[k].labels = <<"1">> /\ col[i].ch[k].value = 119

\* C20: once the first Device State Batch of a run was handled, the channel
\* holds for every entry of the batch exactly one device_active and exactly
\* one device_online sample; device_active is 1 when the mode is "active"
\* and 0 for every other mode, device_online is 1 when the state is
\* "online" and 0 for every other state.
C20_ActiveOnlinePerEntry ==
    \A i \in 1..Len(col) :
        col[i].firstStates # NoMsg =>
            /\ Cardinality(Named(col[i].ch, "sense_device_active"))
                  = Len(col[i].firstStates.States)
            /\ Cardinality(Named(col[i].ch, "sense_device_online"))
                  = Len(col[i].firstStates.States)
            /\ \A d \in 1..Len(col[i].firstStates.States) :
                  /\ Cardinality(OfDevice(col[i].ch, "sense_device_active",
                        col[i].firstStates.States[d].DeviceID)) = 1
                  /\ \A k \in OfDevice(col[i].ch, "sense_device_active",
                                 col[i].firstStates.States[d].DeviceID) :
                        col[i].ch[k].value =
                           (IF col[i].firstStates.States[d].Mode = "active"
                            THEN 1 ELSE 0)
                  /\ Cardinality(OfDevice(col[i].ch, "sense_device_online",
                        col[i].firstStates.States[d].DeviceID)) = 1
                  /\ \A k \in OfDevice(col[i].ch, "sense_device_online",
                                 col[i].firstStates.States[d].DeviceID) :
                        col[i].ch[k].value =
                           (IF col[i].firstStates.States[d].State = "online"
                            THEN 1 ELSE 0)

\* A Device State Batch with a device in mode "idle" and state "online" was
\* handled: its device_active sample is 0 and its device_online sample is 1.
C20_Witness ==
    \E i \in 1..Len(col) :
        /\ col[i].firstStates # NoMsg
        /\ \E d \in 1..Len(col[i].firstStates.States) :
              /\ col[i].firstStates.States[d].Mode = "idle"
              /\ col[i].firstStates.States[d].State = "online"
              /\ \E k \in OfDevice(col[i].ch, "sense_device_active",
                             col[i].firstStates.States[d].DeviceID) :
                    col[i].ch[k].value = 0
              /\ \E k \in OfDevice(col[i].ch, "sense_device_online",
                             col[i].firstStates.States[d].DeviceID) :
                    col[i].ch[k].value = 1

\* The ids of the devices of the catalog of run c.
CatalogIds(c) == {c.devices[d].ID : d \in 1..Len(c.devices)}

\* The positions in ch of the per-device samples of a device that is not in
\* the catalog of run c.
UnknownDeviceSamples(c) ==
    {k \in 1..Len(c.ch) :
        /\ c.ch[k].name \in {"sense_device_watts", "sense_device_active",
                             "sense_device_online"}
        /\ c.ch[k].labels[1] \notin CatalogIds(c)}

\* C21: a sample of a device id that a stream message names and the catalog
\* does not list carries the id and empty name, type, make and model
\* labels; the call that handled the message returned nil or Stop, and a
\* run whose GetDevices and Stream returned nil still reports up = 1.
C21_UnknownDeviceEmptyLabels ==
    \A i \in 1..Len(col) :
        /\ \A k \in UnknownDeviceSamples(col[i]) :
              /\ Len(col[i].ch[k].labels) = 5
              /\ \A j \in 2..5 : col[i].ch[k].labels[j] = ""
        /\ col[i].lastCall.ret \in {"nil", "Stop"}
        /\ (/\ col[i].pc = "done"
            /\ col[i].devicesErr = "nil"
            /\ col[i].streamErr = "nil") =>
              \A k \in Named(col[i].ch, "sense_monitor_up") :
                  col[i].ch[k].value = 1

\* A successful run over the catalog [D1] whose Realtime Update reported
\* watts of D2 and whose Device State Batch listed D2.
C21_Witness ==
    \E i \in 1..Len(col) :
        /\ col[i].pc = "done"
        /\ col[i].devicesErr = "nil"
        /\ col[i].streamErr = "nil"
        /\ CatalogIds(col[i]) = {"D1"}
        /\ \E k \in UnknownDeviceSamples(col[i]) :
              col[i].ch[k] = [name |-> "sense_device_watts",
                              labels |-> <<"D2", "", "", "", "">>,
                              value |-> 30]
        /\ \E k \in UnknownDeviceSamples(col[i]) :
              col[i].ch[k].name = "sense_device_online"
        /\ \E k \in Named(col[i].ch, "sense_monitor_up") :
              col[i].ch[k].value = 1

\* Whether the step handed run i a message of a variant other than Realtime
\* Update and Device State Batch.
OtherVariantStep(i) ==
    /\ i <= Len(col')
    /\ col'[i].ncalls = col[i].ncalls + 1
    /\ col'[i].lastCall.kind \notin {"RealtimeUpdate", "DeviceStates"}

\* C22: a call of the callback with a message of another variant sends no
\* sample, leaves gotRealtime, gotStates, seenWatts and devInfo as they
\* were and returns no error: nil, or Stop when both variants were seen
\* before.
C22_OtherVariantIgnored ==
    [][\A i \in 1..Len(col) :
          OtherVariantStep(i) =>
              /\ col'[i].ch = col[i].ch
              /\ col'[i].cb = col[i].cb
              /\ col'[i].lastCall.emitted = 0
              /\ col'[i].lastCall.ret
                    = (IF col[i].cb.gotRealtime /\ col[i].cb.gotStates
                       THEN "Stop" ELSE "nil")]_vars

\* A message of another variant was handled after a Realtime Update with
\* devices had set gotRealtime and before any Device State Batch.
C22_Witness ==
    \E i \in 1..Len(col) :
        /\ col[i].pc = "stream"
        /\ col[i].ncalls = 2
        /\ col[i].lastCall.kind = "Hello"
        /\ col[i].lastCall.hadRealtime
        /\ ~col[i].lastCall.hadStates
        /\ col[i].cb.gotRealtime
        /\ ~col[i].cb.gotStates
        /\ col[i].cb.seenWatts # {}
        /\ col[i].lastCall.ret = "nil"

\* The names of the eight fixed descriptors.
FixedNames ==
    {"sense_monitor_up", "sense_scrape_time_seconds", "sense_device_watts",
     "sense_monitor_volts", "sense_monitor_watts", "sense_monitor_hz",
     "sense_device_active", "sense_device_online"}

\* C23: Describe sends exactly the eight fixed descriptors, each once,
\* whatever the collector and before any collection: a registered collector
\* that has not started Collect has described all eight and has called no
\* Client operation.
C23_DescribeFixedEight ==
    \A i \in 1..Len(col) :
        /\ Len(col[i].described) = 8
        /\ {col[i].described[k].fqName : k \in 1..Len(col[i].described)}
              = FixedNames
        /\ \A j, k \in 1..Len(col[i].described) :
              j # k => col[i].described[j].fqName # col[i].described[k].fqName
        /\ col[i].pc = "ready" => col[i].calls = <<>>

\* A collector that was registered, and so described, and whose Collect has
\* not been called.
C23_Witness ==
    \E i \in 1..Len(col) :
        /\ pc = "gather"
        /\ col[i].pc = "ready"
        /\ Len(col[i].described) = 8
        /\ col[i].calls = <<>>
        /\ col[i].ch = <<>>

\* The monitor ids of a sequence of (client, monitor) pairs.
MonitorIds(ms) == {ms[k].monitor : k \in 1..Len(ms)}

\* The monitor ids the collectors of this request collect from.
CollectedIds == {col[i].monitor : i \in 1..Len(col)}

\* C24: GetMonitors is read anew by every request: in the request after a
\* change of the monitor sets, every monitor the clients now own, the added
\* ones included, has a collector, and a removed monitor has none.
C24_MonitorsReadAnew ==
    (changed.flag /\ pc \in {"gather", "done", "panicked"}) =>
        /\ pc # "panicked"
        /\ \A m \in MonitorIds(Monitors(clients)) : m \in CollectedIds
        /\ \A m \in MonitorIds(changed.from) \ MonitorIds(Monitors(clients)) :
              m \notin CollectedIds

\* C25: a response is written only after every Collect run of the request
\* has returned, its up and scrape_time_seconds sent, and it holds both
\* samples of every run.
C25_RenderAfterCollections ==
    (pc = "done" \/ status # 0) =>
        \A i \in 1..Len(col) :
            /\ col[i].pc = "done"
            /\ Cardinality(Named(col[i].ch, "sense_monitor_up")) = 1
            /\ Cardinality(Named(col[i].ch, "sense_scrape_time_seconds")) = 1
            /\ \A n \in {"sense_monitor_up", "sense_scrape_time_seconds"} :
                  \E k \in 1..Len(body) :
                      body[k].name = n /\ body[k].monitor = col[i].label

\* A response that was written after a Collect run had waited for its
\* stream while the clock advanced, and ended with both variants seen.
C25_Witness ==
    /\ pc = "done"
    /\ status = 200
    /\ now > 0
    /\ \E i \in 1..Len(col) :
          /\ col[i].pc = "done"
          /\ col[i].cb.gotRealtime
          /\ col[i].cb.gotStates
          /\ \E k \in 1..Len(body) :
                body[k].name = "sense_scrape_time_seconds" /\ body[k].value > 0

\* The Register calls of this request for a collector of the given kind.
RegisterCallsOf(kind) == {k \in 1..Len(regCalls) : regCalls[k].kind = kind}

\* C26: whatever the number of monitors, a request registers the process
\* collector exactly once and the runtime collector exactly once.
C26_ProcessCollectorsOnce ==
    pc \in {"gather", "done", "panicked"} =>
        /\ Cardinality(RegisterCallsOf("process")) = 1
        /\ Cardinality(RegisterCallsOf("go")) = 1

\* Whether run c of a request holds what the messages handed to c itself
\* make it hold: the flags and the seen-device set reflect its own first
\* Realtime Update and Device State Batch, and its channel holds one
\* delivery of each, then the backfill, up and scrape_time_seconds.
OwnInputsOnly(c) ==
    c.devicesErr = "nil" =>
        /\ c.cb.gotRealtime = (c.firstRealtime # NoMsg)
        /\ c.cb.gotStates = (c.firstStates # NoMsg)
        /\ c.cb.seenWatts = Reported(c)
        /\ c.cb.devInfo = DevInfo(c.devices)
        /\ c.pc = "stream" =>
              c.ch \in {OnceRealtime(c) \o OnceStates(c),
                        OnceStates(c) \o OnceRealtime(c)}
        /\ c.pc = "done" =>
              \E elapsed \in 0..MaxTime :
                  c.ch \in {s \o Backfill(c.devices, Reported(c))
                              \o Deferred(IF c.streamErr = "nil" THEN 1 ELSE 0,
                                          elapsed) :
                            s \in {OnceRealtime(c) \o OnceStates(c),
                                   OnceStates(c) \o OnceRealtime(c)}}

\* Whether the response of request r holds the samples of its own registry
\* and collectors.
OwnResponse(r) ==
    r.pc = "done" =>
        /\ r.status = 200
        /\ r.body = Gather(r.reg, r.col)

\* C27: with two requests in flight and their steps interleaved, each
\* request's collectors, flags and response hold what its own inputs give,
\* as when it runs alone, and the clients and the timeout of the Exporter
\* are never written.
C27_ConcurrentScrapesIndependent ==
    /\ \A i \in 1..Len(col) : OwnInputsOnly(col[i])
    /\ \A i \in 1..Len(other.col) : OwnInputsOnly(other.col[i])
    /\ OwnResponse(Request)
    /\ OwnResponse(other)
    /\ clients = << <<7>> >>
    /\ timeout = 0

\* One request has its response while the other, started before that
\* response was written and working on another catalog, is still in its
\* stream; both have handled a Realtime Update.
C27_Witness ==
    /\ pc = "done"
    /\ other.pc = "gather"
    /\ Len(col) = 1
    /\ Len(other.col) = 1
    /\ other.col[1].pc = "stream"
    /\ other.col[1].cb.gotRealtime
    /\ ~other.col[1].cb.gotStates
    /\ col[1].cb.gotRealtime
    /\ col[1].cb.gotStates
    /\ col[1].devices # other.col[1].devices

\* C28: within one Collect run GetDevices is called exactly once and before
\* Stream, Stream is called at most once, and Stream is not called when
\* GetDevices returned an error.
C28_GetDevicesThenStream ==
    \A i \in 1..Len(col) :
        /\ col[i].calls \in {<<>>, <<"GetDevices">>, <<"GetDevices", "Stream">>}
        /\ col[i].pc # "ready" => col[i].calls[1] = "GetDevices"
        /\ col[i].pc = "done" =>
              Cardinality({k \in 1..Len(col[i].calls) :
                              col[i].calls[k] = "GetDevices"}) = 1
        /\ col[i].devicesErr = "error" => col[i].calls = <<"GetDevices">>
        /\ col[i].streamErr # "none" => col[i].calls = <<"GetDevices", "Stream">>

\* A run that returned after GetDevices failed while the clock had
\* advanced: GetDevices is its only call.
C28_Witness ==
    \E i \in 1..Len(col) :
        /\ col[i].pc = "done"
        /\ col[i].devicesErr = "error"
        /\ col[i].calls = <<"GetDevices">>
        /\ col[i].streamErr = "none"
        /\ now > col[i].start

\* C29: ServeHTTP ends without a panic whatever clients and monitors are
\* configured, two or more monitors of one client or of several clients
\* included.
C29_NoPanic ==
    /\ pc # "panicked"
    /\ Len(Monitors(clients)) >= 2 =>
          \A j, k \in 1..Len(regCalls) :
              j < k => DescKey(regCalls[j]) # DescKey(regCalls[k])

\* C30: the up sample of a finished Collect run is 1 exactly when
\* GetDevices and Stream both returned without error, the stop signal of
\* the cooperative stop being no error, and 0 otherwise, whichever messages
\* the stream delivered.
C30_UpIffBothSucceeded ==
    \A i \in 1..Len(col) :
        col[i].pc = "done" =>
            /\ Named(col[i].ch, "sense_monitor_up") # {}
            /\ \A k \in Named(col[i].ch, "sense_monitor_up") :
                  col[i].ch[k].value =
                     (IF /\ col[i].devicesErr = "nil"
                         /\ col[i].streamErr \in {"nil", "Stop"}
                      THEN 1 ELSE 0)

\* C31: the last two samples of a finished Collect run are up and then
\* scrape_time_seconds; the up value is the success flag as the run left
\* it, which is 0 after a failure of GetDevices or of Stream.
C31_UpThenScrapeTimeLast ==
    \A i \in 1..Len(col) :
        col[i].pc = "done" =>
            /\ Len(col[i].ch) >= 2
            /\ col[i].ch[Len(col[i].ch) - 1].name = "sense_monitor_up"
            /\ col[i].ch[Len(col[i].ch)].name = "sense_scrape_time_seconds"
            /\ col[i].ch[Len(col[i].ch) - 1].value = col[i].collectOk
            /\ col[i].ch[Len(col[i].ch)].value \in 0..(now - col[i].start)
            /\ (col[i].devicesErr = "error" \/ col[i].streamErr = "error") =>
                  col[i].collectOk = 0

\* A run whose Stream failed after a Realtime Update and whose backfill
\* sent a zero sample: up = 0 and scrape_time_seconds follow the backfill.
C31_Witness ==
    \E i \in 1..Len(col) :
        /\ col[i].pc = "done"
        /\ col[i].streamErr = "error"
        /\ col[i].firstRealtime # NoMsg
        /\ Len(col[i].devices) = 2
        /\ Len(col[i].firstRealtime.Devices) = 1
        /\ Len(col[i].ch) >= 6
        /\ col[i].ch[Len(col[i].ch) - 2].name = "sense_device_watts"
        /\ col[i].ch[Len(col[i].ch) - 2].value = 0
        /\ col[i].ch[Len(col[i].ch) - 1] =
              [name |-> "sense_monitor_up", labels |-> <<>>, value |-> 0]

\* C32: once both variants were seen, every further call of the callback,
\* with a re-delivered Realtime Update, a re-delivered Device State Batch
\* or a message of another variant, sends no sample and returns Stop.
C32_StopAgainAfterBothSeen ==
    \A i \in 1..Len(col) :
        (col[i].lastCall.hadRealtime /\ col[i].lastCall.hadStates) =>
            /\ col[i].lastCall.emitted = 0
            /\ col[i].lastCall.ret = "Stop"

\* C33: the context handed to GetDevices and Stream has a deadline exactly
\* when the timeout of the exporter is greater than zero, and the deadline
\* is then start + timeout; with a zero or negative timeout the context is
\* done only when the context of the request is, however much time passes,
\* and no run returns on an expired context.
C33_DeadlineIffPositiveTimeout ==
    \A i \in 1..Len(col) :
        col[i].pc # "ready" =>
            /\ col[i].timeout = timeout
            /\ col[i].hasDeadline = (timeout > 0)
            /\ col[i].hasDeadline =>
                  col[i].deadline = col[i].start + timeout
            /\ timeout <= 0 =>
                  /\ Expired(col[i]) = cancelled
                  /\ col[i].expired => cancelled

\* A run with a negative timeout that got the catalog and a message and
\* whose Stream returned by itself after the clock had advanced.
C33_Witness ==
    \E i \in 1..Len(col) :
        /\ timeout < 0
        /\ col[i].pc = "done"
        /\ now > col[i].start
        /\ col[i].devicesErr = "nil"
        /\ col[i].ncalls >= 1
        /\ col[i].streamErr = "nil"
        /\ ~col[i].expired
        /\ ~col[i].hasDeadline

\* C34: the context of every collector is derived from the context of the
\* request that created it: when the request is cancelled, the context of
\* each of its collectors is done, and the context of a collector of a
\* request that is not cancelled is not done, whatever happens to the
\* other request in flight; a run returns on a done context only in a
\* cancelled request.
C34_RequestCancelReachesItsCollectors ==
    /\ \A i \in 1..Len(col) :
          /\ Expired(col[i]) = cancelled
          /\ col[i].expired => cancelled
    /\ \A i \in 1..Len(other.col) :
          /\ DoneIn(other.col[i], other.cancelled) = other.cancelled
          /\ other.col[i].expired => other.cancelled

\* The request being handled was cancelled and its Collect run returned
\* with the error of Stream, while the Stream of the other request, which
\* is not cancelled, has delivered a message and is still open.
C34_Witness ==
    /\ cancelled
    /\ Len(col) = 1
    /\ col[1].pc = "done"
    /\ col[1].expired
    /\ col[1].streamErr = "error"
    /\ ~other.cancelled
    /\ other.pc = "gather"
    /\ Len(other.col) = 1
    /\ other.col[1].pc = "stream"
    /\ other.col[1].ncalls >= 1
    /\ ~DoneIn(other.col[1], other.cancelled)

\* The names of the samples the callback sends for a Realtime Update and
\* for a Device State Batch.
RealtimeNames == {"sense_monitor_watts", "sense_monitor_hz",
                  "sense_monitor_volts"}
StatesNames == {"sense_device_active", "sense_device_online"}

\* What holds of the flags of a run between two calls of the callback.
FlagsMatchOutput(c) ==
    /\ c.cb.gotRealtime =>
          /\ c.firstRealtime # NoMsg
          /\ Contains(c.ch, OnceRealtime(c))
    /\ c.cb.gotStates =>
          /\ c.firstStates # NoMsg
          /\ Contains(c.ch, OnceStates(c))
    /\ (\E n \in RealtimeNames : Named(c.ch, n) # {}) => c.cb.gotRealtime
    /\ (\E n \in StatesNames : Named(c.ch, n) # {}) => c.cb.gotStates
    /\ c.firstRealtime # NoMsg => c.cb.gotRealtime
    /\ c.firstStates # NoMsg => c.cb.gotStates

\* A step of a run whose Stream is open leaves the flags that were set.
FlagsKept(i) ==
    (i <= Len(col') /\ col[i].pc = "stream"
                    /\ col'[i].pc \in {"stream", "done"}) =>
        /\ col[i].cb.gotRealtime => col'[i].cb.gotRealtime
        /\ col[i].cb.gotStates => col'[i].cb.gotStates

\* C36: within one Collect run gotRealtime and gotStates, once set, stay
\* set; when a flag is set, all samples of the message that set it are in
\* the channel; and samples of a variant are in the channel only when the
\* flag of the variant is set.
C36_FlagsMonotoneAndMatchOutput ==
    /\ [](\A i \in 1..Len(col) : FlagsMatchOutput(col[i]))
    /\ [][\A i \in 1..Len(col) : FlagsKept(i)]_vars

\* A Realtime Update without devices set gotRealtime, its monitor samples
\* are in the channel, and a later call left the flag set.
C36_Witness ==
    \E i \in 1..Len(col) :
        /\ col[i].pc = "stream"
        /\ col[i].ncalls >= 2
        /\ col[i].firstRealtime # NoMsg
        /\ Len(col[i].firstRealtime.Devices) = 0
        /\ col[i].cb.gotRealtime
        /\ col[i].lastCall.hadRealtime
        /\ ~col[i].cb.gotStates
        /\ Named(col[i].ch, "sense_monitor_watts") # {}

\* How many entries of the first Realtime Update of the run name device id.
TimesReported(c, id) ==
    IF c.firstRealtime = NoMsg THEN 0
    ELSE Cardinality({k \in 1..Len(c.firstRealtime.Devices) :
                         c.firstRealtime.Devices[k].ID = id})

\* C37: a device id the Realtime Update reported has the device_watts
\* samples of the update and no other in the channel, in every state and
\* on every exit path of Collect: the backfill adds none for it.
C37_NoBackfillForReported ==
    \A i \in 1..Len(col) :
        \A id \in Reported(col[i]) \cup col[i].cb.seenWatts :
              /\ id \in Reported(col[i])
              /\ Cardinality(WattsOf(col[i].ch, id))
                    = TimesReported(col[i], id)
              /\ \A k \in WattsOf(col[i].ch, id) :
                    \E j \in 1..Len(col[i].firstRealtime.Devices) :
                       /\ col[i].firstRealtime.Devices[j].ID = id
                       /\ col[i].ch[k].value
                             = col[i].firstRealtime.Devices[j].W

\* Stream failed after an update that reported D2 at 0 watts, over a
\* catalog of D2 and D1: D1 was backfilled, D2 has its one reported sample.
C37_Witness ==
    \E i \in 1..Len(col) :
        /\ col[i].pc = "done"
        /\ col[i].streamErr = "error"
        /\ Len(col[i].devices) = 2
        /\ Reported(col[i]) = {"D2"}
        /\ \A k \in WattsOf(col[i].ch, "D2") : col[i].ch[k].value = 0
        /\ Cardinality(WattsOf(col[i].ch, "D2")) = 1
        /\ Cardinality(WattsOf(col[i].ch, "D1")) = 1

\* Whether the client behaved in the present run of c as in the run before:
\* GetDevices returned the same, Stream delivered the same first message of
\* each variant and returned the same.
SameUpstream(c) ==
    /\ c.prev.ran
    /\ c.devicesErr = c.prev.devicesErr
    /\ c.devices = c.prev.devices
    /\ c.firstRealtime = c.prev.firstRealtime
    /\ c.firstStates = c.prev.firstStates
    /\ c.streamErr = c.prev.streamErr

\* C35: the callback container is made anew by every Collect: in a second
\* run of the same collector the flags, seenWatts and devInfo come from the
\* messages and the catalog of that run alone, and when the client behaved
\* as in the first run the second run sent the same set of samples
\* (scrape_time_seconds left out).
C35_SecondCollectSameSamples ==
    \A i \in 1..Len(col) :
        col[i].prev.ran =>
            /\ col[i].pc \in {"stream", "done"} => OwnInputsOnly(col[i])
            /\ (col[i].pc = "done" /\ SameUpstream(col[i])) =>
                  SampleSet(col[i].ch) = SampleSet(col[i].prev.ch)

\* Both runs got the catalog of D2 and D1, a Realtime Update reporting D1
\* and a Device State Batch, and both sent the reported device_watts of D1
\* and the zero of D2.
C35_Witness ==
    \E i \in 1..Len(col) :
        /\ col[i].pc = "done"
        /\ SameUpstream(col[i])
        /\ col[i].devicesErr = "nil"
        /\ Len(col[i].devices) = 2
        /\ col[i].firstRealtime # NoMsg
        /\ col[i].firstStates # NoMsg
        /\ col[i].streamErr = "Stop"
        /\ Cardinality(Named(col[i].ch, "sense_device_watts")) = 2
        /\ Named(col[i].ch, "sense_device_active") # {}
        /\ SampleSet(col[i].ch) = SampleSet(col[i].prev.ch)

====
